---- MODULE Spec2Model ----
(***************************************************************************)
(* The Bayesian HMM Gibbs sampler of bhmm/bhmm_class.py (class BHMM).      *)
(*                                                                         *)
(* Python objects live on a heap (heap.hmms, heap.oms) and are named by    *)
(* references, so that copy.deepcopy and in-place mutation can be told     *)
(* apart.  Probabilities are exact: a probability is the numerator of a    *)
(* fraction over a denominator shared by the whole vector, and a log-space *)
(* number is either -inf or the log of such a numerator.                   *)
(***************************************************************************)
EXTENDS Integers, Sequences, FiniteSets, TLC

\* ------------------------------------------------------------- bounds
MaxLen == 2       \* longest observation sequence
MaxBurn == 1      \* largest nburn of one call
MaxSamples == 2   \* largest nsamples of one call
MaxThin == 2      \* largest nthin of one call

\* ------------------------------------------------- exact log-space reals
NegInf == [neginf |-> TRUE, arg |-> 0]

Log(w) == IF w = 0 THEN NegInf ELSE [neginf |-> FALSE, arg |-> w]

Exp(x) == IF x.neginf THEN 0 ELSE x.arg

\* x + y of two log-space numbers
LogAdd(x, y) == IF x.neginf \/ y.neginf THEN NegInf ELSE Log(x.arg * y.arg)

RECURSIVE SumOver(_, _)
SumOver(f, S) ==
    IF S = {} THEN 0
    ELSE LET x == CHOOSE y \in S : TRUE IN f[x] + SumOver(f, S \ {x})

\* scipy.misc.logsumexp of a vector
logsumexp(x) == Log(SumOver([i \in DOMAIN x |-> Exp(x[i])], DOMAIN x))

\* np.exp(log_p - logsumexp(log_p)): -inf - (-inf) is NaN
Normalized(log_p) ==
    LET z == logsumexp(log_p)
    IN  [i \in DOMAIN log_p |->
            IF z.neginf THEN [nan |-> TRUE, num |-> 0, den |-> 0]
            ELSE [nan |-> FALSE, num |-> Exp(log_p[i]), den |-> Exp(z)]]

\* ------------------------------------------------------------ HMM model
None == "None"
Unset == "unset"
NoList == [none |-> TRUE, list |-> <<>>]
List(l) == [none |-> FALSE, list |-> l]
Symbols == {0, 1}

StatesOf(n) == 0 .. (n - 1)

LogMatrix(T) == [i \in DOMAIN T |-> [j \in DOMAIN T[i] |-> Log(T[i][j])]]

LogVector(p) == [i \in DOMAIN p |-> Log(p[i])]

\* HMM(nstates, Tij, ...): the model object as the sampler uses it
HMM(n, Tij, Pi, om) ==
    [nstates |-> n, Tij |-> Tij, logTij |-> LogMatrix(Tij),
     Pi |-> Pi, logPi |-> LogVector(Pi), output_model |-> om,
     hidden_state_trajectories |-> NoList, hidden_state_trajectory |-> Unset]

\* model.Tij = value
SetTij_keepsCachedLog(m, T) == [m EXCEPT !.Tij = T]

SetTij(m, T) == [m EXCEPT !.Tij = T, !.logTij = LogMatrix(T)]

\* model.log_emission_probability(i, o) of the discrete output model
log_emission_probability(B, i, o) == Log(B[i][o])

\* ----------------------------------- forward filtering, backward sampling
\* the t of "for t in range(1,T)" and of "for t in range(T-2, -1, -1)"
ForwardRange(T) == 1 .. (T - 1)

BackwardRange(T) == 0 .. (T - 2)

\* every time index at which log_alpha_it, o_t or s_t is subscripted
TimeIndicesRead(T) ==
    {0} \cup UNION {{t - 1, t} : t \in ForwardRange(T)}
        \cup {T - 1} \cup UNION {{t, t + 1} : t \in BackwardRange(T)}

\* log_alpha_it, as a function of t (0-based) and state; o is 1-based here
ForwardPass(m, B, o) ==
    LET S == StatesOf(m.nstates)
        alpha[t \in 0 .. (Len(o) - 1)] ==
            IF t = 0
            THEN [i \in S |-> LogAdd(m.logPi[i], log_emission_probability(B, i, o[1]))]
            ELSE [j \in S |->
                    LogAdd(logsumexp([k \in S |-> LogAdd(alpha[t - 1][k], m.logTij[k][j])]),
                           log_emission_probability(B, j, o[t + 1]))]
    IN  alpha

\* np.random.choice(range(nstates), size=1, p=p_i): the indices it can return,
\* -1 standing for the ValueError newer numpy raises on a NaN p.  Older numpy
\* lets a NaN p through its checks and returns an index of the range.
ChoiceRaised == -1

choice(p) ==
    IF \E i \in DOMAIN p : p[i].nan
    THEN {ChoiceRaised} \cup DOMAIN p
    ELSE {i \in DOMAIN p : p[i].num > 0}

\* the p_i of one backward step, given the state already drawn for t+1
BackwardLogP_usesRowOfNextState(m, alpha, t, next) ==
    [i \in StatesOf(m.nstates) |-> LogAdd(alpha[t][i], m.logTij[next][i])]

BackwardLogP(m, alpha, t, next) ==
    [i \in StatesOf(m.nstates) |-> LogAdd(alpha[t][i], m.logTij[i][next])]

Raised == [raised |-> TRUE, s_t |-> <<>>]

\* the backward loop from t down to 0; suffix holds s_t[t+1 .. T-1]
RECURSIVE BackwardSample(_, _, _, _)
BackwardSample(m, alpha, t, suffix) ==
    IF t < 0 THEN {[raised |-> FALSE, s_t |-> suffix]}
    ELSE UNION { IF x = ChoiceRaised THEN {Raised}
                 ELSE BackwardSample(m, alpha, t - 1, <<x>> \o suffix)
                 : x \in choice(Normalized(BackwardLogP(m, alpha, t, Head(suffix)))) }

\* _sampleHiddenStateTrajectory(o_t): every outcome the call can have
sampleHiddenStateTrajectory(m, B, o) ==
    LET T == Len(o)
        alpha == ForwardPass(m, B, o)
    IN  UNION { IF x = ChoiceRaised THEN {Raised}
                ELSE BackwardSample(m, alpha, T - 2, <<x>>)
                : x \in choice(Normalized(alpha[T - 1])) }

\* ------------------------------------------------- the model's collaborators
UniformRow(n) == [j \in StatesOf(n) |-> 1]

PointRow(n, k) == [j \in StatesOf(n) |-> IF j = k THEN n ELSE 0]

UniformMatrix(n) == [i \in StatesOf(n) |-> UniformRow(n)]

IdentityMatrix(n) == [i \in StatesOf(n) |-> PointRow(n, i)]

\* one state's emission probabilities over Symbols, in thirds
EmissionRow(k) == [o \in Symbols |-> IF o = 0 THEN k ELSE 3 - k]

\* TransitionMatrixSamplerRev(C).sample(steps): reversible row-stochastic matrices
TransitionMatrixSamples(n) == {UniformMatrix(n), IdentityMatrix(n)}

\* output_model.sample(observations_by_state): strictly positive emission rows
OutputModelSamples(n) ==
    { [i \in StatesOf(n) |-> EmissionRow(IF i % 2 = p THEN 2 ELSE 1)] : p \in {0, 1} }

\* a draw from a continuous distribution differs from the value it replaces
\* whenever another value exists
FreshSamples(S, current) == IF S \ {current} = {} THEN S ELSE S \ {current}

\* ------------------------------------------------------------------ heap
\* copy.deepcopy(model): a new HMM object with a new output model object
deepcopy_sharesOutputModel(h, ref) ==
    [h EXCEPT !.hmms = Append(@, h.hmms[ref])]

deepcopy(h, ref) ==
    [hmms |-> Append(h.hmms, [h.hmms[ref] EXCEPT !.output_model = Len(h.oms) + 1]),
     oms |-> Append(h.oms, h.oms[h.hmms[ref].output_model])]

\* the reference deepcopy returns
copied(h, ref) == Len(deepcopy(h, ref).hmms)

\* ----------------------------------------------------------------- state
VARIABLES
    observations,     \* self.observations
    reversible,       \* self.reversible
    heap,             \* the HMM objects and the output model objects
    initial_model,    \* the caller's initial_model object
    model,            \* self.model
    pc,               \* where the sampler is
    caller,           \* the loop _update returns to
    nsamples, nburn, nthin, save_hidden_state_trajectory,   \* sample()'s arguments
    iteration, thin,  \* sample()'s loop variables
    models,           \* sample()'s list of saved models
    step,             \* the statement of _update that runs next
    outcome,          \* how the last sample() call ended
    result,           \* what the last sample() call returned
    returned,         \* every model a sample() call has returned
    sweeps,           \* _update calls completed in this sample() call
    taken,            \* sweeps completed when each saved model was copied
    done_steps,       \* the statements of _update run in the sweep under way
    trajectories_of,  \* the sweep whose statement wrote hidden_state_trajectories
    read_of           \* the sweep whose trajectories each later statement read

vars == <<observations, reversible, heap, initial_model, model, pc, caller,
          nsamples, nburn, nthin, save_hidden_state_trajectory, iteration, thin,
          models, step, outcome, result, returned, sweeps, taken, done_steps,
          trajectories_of, read_of>>

ntrajectories == Len(observations)

live == heap.hmms[model]

liveB == heap.oms[live.output_model]

\* ------------------------------------------------------------ construction
\* o_t of length T: the symbols 0, 1, 0, ...
Observation(T) == [t \in 1 .. T |-> (t - 1) % 2]

InitialOutputModels(n) ==
    OutputModelSamples(n) \cup
    { [i \in StatesOf(n) |-> EmissionRow(IF i % 2 = 0 THEN 3 ELSE 0)],
      [i \in StatesOf(n) |-> EmissionRow(3)] }

InitialDistributions(n) == {UniformRow(n), PointRow(n, 0)}

\* state 0 absorbing: a transition matrix that is not symmetric
AbsorbingMatrix(n) == [i \in StatesOf(n) |-> IF i = 0 THEN PointRow(n, 0) ELSE UniformRow(n)]

InitialTransitionMatrices(n) == {UniformMatrix(n), AbsorbingMatrix(n)}

\* BHMM(observations, nstates, initial_model, reversible) has returned
Constructed(obs, rev, n, Tij, Pi, B) ==
    /\ observations = obs
    /\ reversible = rev
    /\ heap = deepcopy([hmms |-> <<HMM(n, Tij, Pi, 1)>>, oms |-> <<B>>], 1)
    /\ initial_model = 1
    /\ model = Len(heap.hmms)
    /\ pc = "idle"
    /\ caller = "none"
    /\ nsamples = 0 /\ nburn = 0 /\ nthin = 0
    /\ save_hidden_state_trajectory = FALSE
    /\ iteration = 0 /\ thin = 0
    /\ models = <<>>
    /\ step = 1
    /\ outcome = "none"
    /\ result = <<>>
    /\ returned = {}
    /\ sweeps = 0
    /\ taken = <<>>
    /\ done_steps = <<>>
    /\ trajectories_of = 0
    /\ read_of = [emission |-> 0, transition |-> 0]

\* one-state samplers over every shape of the data, and two-state samplers
\* asked for the non-reversible prior
Init ==
    \E obs \in { <<Observation(T)>> : T \in 1 .. MaxLen } \cup
               { <<Observation(MaxLen), Observation(1)>> },
       rev \in BOOLEAN, n \in {1, 2} :
        /\ n = 2 => ~rev
        /\ Constructed(obs, rev, n, UniformMatrix(n), UniformRow(n),
                       [i \in StatesOf(n) |-> EmissionRow(2)])

\* two-state samplers
InitChain ==
    \E obs \in { <<Observation(T)>> : T \in 1 .. MaxLen } \cup
               { <<Observation(2), Observation(1)>> },
       rev \in BOOLEAN :
      \E Tij \in InitialTransitionMatrices(2), Pi \in InitialDistributions(2),
         B \in InitialOutputModels(2) :
        Constructed(obs, rev, 2, Tij, Pi, B)

\* ------------------------------------------------------------- sample()
\* an exception leaves sample(): nothing is returned
Abort(kind) ==
    /\ pc' = "raised"
    /\ outcome' = kind
    /\ result' = <<>>
    /\ UNCHANGED <<observations, reversible, heap, initial_model, model, caller,
                   nsamples, nburn, nthin, save_hidden_state_trajectory, iteration, thin,
                   models, step, returned, sweeps, taken, trajectories_of>>

\* self._update() is called from the loop named by from
CallUpdate(from) ==
    /\ pc' = "update"
    /\ caller' = from
    /\ step' = 1
    /\ done_steps' = <<>>

\* sample(ns, nburn=nb, nthin=nt, save_hidden_state_trajectory=sv) is called
Call(ns, nb, nt, sv) ==
    /\ pc = "idle"
    /\ nsamples' = ns /\ nburn' = nb /\ nthin' = nt
    /\ save_hidden_state_trajectory' = sv
    /\ pc' = "burn"
    /\ iteration' = 0 /\ thin' = 0
    /\ models' = <<>> /\ taken' = <<>>
    /\ sweeps' = 0
    /\ outcome' = "running" /\ result' = <<>>
    /\ done_steps' = <<>>
    /\ trajectories_of' = 0
    /\ read_of' = [emission |-> 0, transition |-> 0]
    /\ UNCHANGED <<observations, reversible, heap, initial_model, model, caller, step,
                   returned>>

\* the models saved by the calls so far
Saved == Len(heap.hmms) - 2

Sample ==
    \E ns \in 0 .. MaxSamples, nb \in 0 .. MaxBurn, nt \in 0 .. MaxThin, sv \in BOOLEAN :
        /\ Saved = 0 \/ ns = 0
        /\ Call(ns, nb, nt, sv)

SampleChain ==
    \E a \in {<<2, 0, 1>>, <<1, 1, 1>>, <<0, 1, 1>>}, sv \in BOOLEAN :
        /\ Saved + a[1] <= 2
        /\ Call(a[1], a[2], a[3], sv)

\* "for i in range(n)" of sample(): whether the body runs once more after i turns
InRange_oneTurnTooMany(i, n) == i <= n

InRange(i, n) == i < n

\* for iteration in range(nburn): self._update()
BurnIn ==
    /\ pc = "burn"
    /\ IF InRange(iteration, nburn)
       THEN /\ iteration' = iteration + 1
            /\ CallUpdate("burn")
       ELSE /\ iteration' = 0
            /\ pc' = "collect"
            /\ UNCHANGED <<caller, step, done_steps>>
    /\ UNCHANGED <<observations, reversible, heap, initial_model, model, nsamples, nburn,
                   nthin, save_hidden_state_trajectory, thin, models, outcome, result,
                   returned, sweeps, taken, trajectories_of, read_of>>

\* for iteration in range(nsamples): ... ; return models
Collect ==
    /\ pc = "collect"
    /\ IF InRange(iteration, nsamples)
       THEN /\ pc' = "thin"
            /\ thin' = 0
            /\ UNCHANGED <<outcome, result, returned>>
       ELSE /\ pc' = "returned"
            /\ outcome' = "returned"
            /\ result' = models
            /\ returned' = returned \cup {models[k] : k \in DOMAIN models}
            /\ UNCHANGED thin
    /\ UNCHANGED <<observations, reversible, heap, initial_model, model, caller, nsamples,
                   nburn, nthin, save_hidden_state_trajectory, iteration, models, step,
                   sweeps, taken, done_steps, trajectories_of, read_of>>

\* the caller has the list, or the exception: sample()'s locals are gone
Resume ==
    /\ pc \in {"returned", "raised"}
    /\ pc' = "idle"
    /\ caller' = "none"
    /\ nsamples' = 0 /\ nburn' = 0 /\ nthin' = 0
    /\ save_hidden_state_trajectory' = FALSE
    /\ iteration' = 0 /\ thin' = 0
    /\ models' = <<>> /\ taken' = <<>>
    /\ step' = 1
    /\ sweeps' = 0
    /\ outcome' = "none" /\ result' = <<>>
    /\ done_steps' = <<>>
    /\ trajectories_of' = 0
    /\ read_of' = [emission |-> 0, transition |-> 0]
    /\ UNCHANGED <<observations, reversible, heap, initial_model, model, returned>>

\* model_copy = copy.deepcopy(self.model), and what is done to the copy
SavedCopy(h) ==
    IF save_hidden_state_trajectory THEN deepcopy(h, model)
    ELSE [deepcopy(h, model) EXCEPT
            !.hmms[copied(h, model)].hidden_state_trajectory = None]

\* for thin in range(nthin): self._update() ; then the copy is saved
Thin ==
    /\ pc = "thin"
    /\ IF InRange(thin, nthin)
       THEN /\ thin' = thin + 1
            /\ CallUpdate("thin")
            /\ UNCHANGED <<heap, models, iteration, taken>>
       ELSE /\ heap' = SavedCopy(heap)
            /\ models' = Append(models, copied(heap, model))
            /\ taken' = Append(taken, sweeps)
            /\ iteration' = iteration + 1
            /\ pc' = "collect"
            /\ UNCHANGED <<thin, caller, step, done_steps>>
    /\ UNCHANGED <<observations, reversible, initial_model, model, nsamples, nburn, nthin,
                   save_hidden_state_trajectory, outcome, result, returned, sweeps,
                   trajectories_of, read_of>>

\* ------------------------------------------------------------- _update()
\* the three statements of _update, in the order they are written
Statements_emissionFirst == <<"emission", "trajectories", "transition">>

Statements == <<"trajectories", "emission", "transition">>

\* the statement at step has run: on to the next one, or back to the caller
Advance(name) ==
    /\ done_steps' = Append(done_steps, name)
    /\ IF step < Len(Statements)
       THEN /\ step' = step + 1
            /\ pc' = "update"
            /\ UNCHANGED sweeps
       ELSE /\ step' = 1
            /\ pc' = caller
            /\ sweeps' = sweeps + 1

\* self.model.hidden_state_trajectories.append(hidden_state_trajectory)
AppendTrajectory_alsoStoresToFirstSlot(m, s_t) ==
    [m EXCEPT !.hidden_state_trajectories =
        List([k \in 1 .. Len(@.list) + 1 |-> IF k = 1 \/ k > Len(@.list) THEN s_t ELSE @.list[k]])]

AppendTrajectory_prepends(m, s_t) ==
    [m EXCEPT !.hidden_state_trajectories = List(<<s_t>> \o @.list)]

AppendTrajectory(m, s_t) ==
    [m EXCEPT !.hidden_state_trajectories = List(Append(@.list, s_t))]

\* self.model.hidden_state_trajectories = list()
BeginTrajectories ==
    /\ pc = "update"
    /\ Statements[step] = "trajectories"
    /\ heap' = [heap EXCEPT !.hmms[model].hidden_state_trajectories = List(<<>>)]
    /\ trajectories_of' = sweeps + 1
    /\ pc' = "trajectories"
    /\ UNCHANGED <<observations, reversible, initial_model, model, caller, nsamples, nburn,
                   nthin, save_hidden_state_trajectory, iteration, thin, models, step,
                   outcome, result, returned, sweeps, taken, done_steps, read_of>>

\* one turn of "for trajectory_index in range(self.ntrajectories)"
SampleTrajectory ==
    /\ pc = "trajectories"
    /\ LET trajectory_index == Len(live.hidden_state_trajectories.list)
       IN  \E out \in sampleHiddenStateTrajectory(live, liveB,
                                                 observations[trajectory_index + 1]) :
             IF out.raised
             THEN /\ Abort("ValueError")
                  /\ UNCHANGED <<done_steps, read_of>>
             ELSE /\ heap' = [heap EXCEPT !.hmms[model] = AppendTrajectory(@, out.s_t)]
                  /\ IF trajectory_index + 1 < ntrajectories
                     THEN UNCHANGED <<pc, step, sweeps, done_steps>>
                     ELSE Advance("trajectories")
                  /\ UNCHANGED <<observations, reversible, initial_model, model, caller,
                                 nsamples, nburn, nthin, save_hidden_state_trajectory,
                                 iteration, thin, models, outcome, result, returned,
                                 taken, trajectories_of, read_of>>

\* _updateEmissionProbabilities()
UpdateEmissionProbabilities ==
    /\ pc = "update"
    /\ Statements[step] = "emission"
    /\ read_of' = [read_of EXCEPT !.emission = trajectories_of]
    /\ \E B \in FreshSamples(OutputModelSamples(live.nstates), liveB) :
         heap' = [heap EXCEPT !.oms[live.output_model] = B]
    /\ Advance("emission")
    /\ UNCHANGED <<observations, reversible, initial_model, model, caller, nsamples, nburn,
                   nthin, save_hidden_state_trajectory, iteration, thin, models, outcome,
                   result, returned, taken, trajectories_of>>

\* _updateTransitionMatrix()
UpdateTransitionMatrix_ignoresReversible ==
    /\ pc = "update"
    /\ Statements[step] = "transition"
    /\ read_of' = [read_of EXCEPT !.transition = trajectories_of]
    /\ \E Tij \in FreshSamples(TransitionMatrixSamples(live.nstates), live.Tij) :
         heap' = [heap EXCEPT !.hmms[model] = SetTij(@, Tij)]
    /\ Advance("transition")
    /\ UNCHANGED <<observations, reversible, initial_model, model, caller, nsamples,
                   nburn, nthin, save_hidden_state_trajectory, iteration, thin,
                   models, outcome, result, returned, taken, trajectories_of>>

UpdateTransitionMatrix ==
    /\ pc = "update"
    /\ Statements[step] = "transition"
    /\ read_of' = [read_of EXCEPT !.transition = trajectories_of]
    /\ IF reversible
       THEN /\ \E Tij \in FreshSamples(TransitionMatrixSamples(live.nstates), live.Tij) :
                 heap' = [heap EXCEPT !.hmms[model] = SetTij(@, Tij)]
            /\ Advance("transition")
            /\ UNCHANGED <<observations, reversible, initial_model, model, caller, nsamples,
                           nburn, nthin, save_hidden_state_trajectory, iteration, thin,
                           models, outcome, result, returned, taken, trajectories_of>>
       ELSE /\ Abort("NotImplemented")
            /\ UNCHANGED done_steps

Update ==
    \/ BeginTrajectories
    \/ SampleTrajectory
    \/ UpdateEmissionProbabilities
    \/ UpdateTransitionMatrix

Next == Sample \/ BurnIn \/ Collect \/ Thin \/ Update \/ Resume

Spec == Init /\ [][Next]_vars

NextChain == SampleChain \/ BurnIn \/ Collect \/ Thin \/ Update \/ Resume

SpecChain == InitChain /\ [][NextChain]_vars

\* ============================================================== properties
InCall == pc \in {"burn", "collect", "thin", "update", "trajectories"}

AllStatements == <<"trajectories", "emission", "transition">>

\* the two models agree on everything a posterior sample carries
SameSample(h, a, b) ==
    /\ h.hmms[a].nstates = h.hmms[b].nstates
    /\ h.hmms[a].Tij = h.hmms[b].Tij
    /\ h.hmms[a].logTij = h.hmms[b].logTij
    /\ h.hmms[a].Pi = h.hmms[b].Pi
    /\ h.hmms[a].logPi = h.hmms[b].logPi
    /\ h.hmms[a].hidden_state_trajectories = h.hmms[b].hidden_state_trajectories
    /\ h.oms[h.hmms[a].output_model] = h.oms[h.hmms[b].output_model]

\* C1: a call that returns has run exactly nburn + nsamples*nthin sweeps and
\* returns exactly nsamples saved models, the k-th one copied right after
\* sweep nburn + k*nthin (so none during burn-in) and equal to the model as
\* that sweep left it; sample(0, nburn=0) returns the empty list after no sweep.
C1_SweepsAndSnapshots ==
    /\ pc = "returned" =>
         /\ sweeps = nburn + nsamples * nthin
         /\ result = models
         /\ Len(result) = nsamples
         /\ Len(taken) = nsamples
         /\ \A k \in 1 .. nsamples : taken[k] = nburn + k * nthin
         /\ (nsamples = 0 /\ nburn = 0) => (result = <<>> /\ sweeps = 0)
    /\ (pc = "collect" /\ iteration >= 1) =>
         /\ Len(models) = iteration
         /\ taken[iteration] = sweeps
         /\ SameSample(heap, models[iteration], model)

C1_Witness ==
    /\ pc = "returned" /\ reversible
    /\ nsamples = 2 /\ nburn = 1 /\ nthin = 2
    /\ taken = <<3, 5>>

C8_SweepOrder ==
    /\ Len(done_steps) <= 3
    /\ done_steps = SubSeq(AllStatements, 1, Len(done_steps))
    /\ pc = "update" => Len(done_steps) = step - 1
    /\ pc = "trajectories" => (done_steps = <<>> /\ trajectories_of = sweeps + 1)
    /\ (pc \in {"update", "raised"} /\ Len(done_steps) >= 1) => trajectories_of = sweeps + 1
    /\ (pc \in {"update", "raised"} /\ Len(done_steps) >= 2) => read_of.emission = sweeps + 1
    /\ (pc \in {"burn", "collect", "thin", "returned"} /\ sweeps > 0) =>
         /\ done_steps = AllStatements
         /\ trajectories_of = sweeps
         /\ read_of = [emission |-> sweeps, transition |-> sweeps]

C8_Witness ==
    /\ pc = "thin" /\ sweeps = 2 /\ thin = 1
    /\ done_steps = AllStatements
    /\ read_of = [emission |-> 2, transition |-> 2]

\* ------------------------------------------------------------ posterior
RECURSIVE ProductOver(_, _)
ProductOver(f, S) ==
    IF S = {} THEN 1
    ELSE LET x == CHOOSE y \in S : TRUE IN f[x] * ProductOver(f, S \ {x})

\* Pi[s0] e(s0,o0) prod_t Tij[s_t,s_t+1] e(s_t+1,o_t+1), numerators only
JointWeight(m, B, o, s) ==
    m.Pi[s[1]] * B[s[1]][o[1]] *
    ProductOver([t \in 1 .. (Len(o) - 1) |-> m.Tij[s[t]][s[t + 1]] * B[s[t + 1]][o[t + 1]]],
                1 .. (Len(o) - 1))

PosteriorSupport(m, B, o) ==
    {s \in [1 .. Len(o) -> StatesOf(m.nstates)] : JointWeight(m, B, o, s) > 0}

\* some column of log_alpha_it is -inf in every state
Degenerate(m, B, o) ==
    \E t \in 0 .. (Len(o) - 1) :
        \A i \in StatesOf(m.nstates) : ForwardPass(m, B, o)[t][i].neginf

Returned(m, B, o) == {out.s_t : out \in {x \in sampleHiddenStateTrajectory(m, B, o) : ~x.raised}}

trajectories == live.hidden_state_trajectories.list

\* everything sample() has handed out or holds for handing out, and the
\* caller's initial model
Protected == {initial_model} \cup returned \cup {models[k] : k \in DOMAIN models}

\* C2: the initial model and every saved model are objects of their own,
\* a saved model equals the model it was copied from, and no step of any call
\* changes a saved model or the initial model (matrix, output model parameters,
\* trajectories).
C2_SnapshotIsolation ==
    [][ /\ model \notin Protected
        /\ \A r \in Protected : heap.hmms[r].output_model # live.output_model
        /\ \A r \in Protected :
             /\ heap'.hmms[r] = heap.hmms[r]
             /\ heap'.oms[heap.hmms[r].output_model] = heap.oms[heap.hmms[r].output_model]
        /\ Len(models') > Len(models) =>
             /\ models'[Len(models')] > Len(heap.hmms)
             /\ SameSample(heap', models'[Len(models')], model)
             /\ heap'.hmms[model] = heap.hmms[model]
      ]_vars

C2_Witness ==
    /\ pc = "trajectories" /\ models = <<>>
    /\ \E r \in returned, q \in returned :
         /\ heap.hmms[r].Tij # live.Tij
         /\ heap.oms[heap.hmms[r].output_model] # liveB
         /\ heap.hmms[q].Tij # heap.hmms[r].Tij
         /\ heap.hmms[r].hidden_state_trajectories # heap.hmms[q].hidden_state_trajectories
    /\ heap.hmms[initial_model].Tij # live.Tij

\* C3: a model saved with save_hidden_state_trajectory off holds no hidden
\* trajectories, one saved with it on holds those of its sweep.
C3_TrajectoriesCleared ==
    \A k \in DOMAIN models :
        IF save_hidden_state_trajectory
        THEN heap.hmms[models[k]].hidden_state_trajectories.list # <<>>
        ELSE heap.hmms[models[k]].hidden_state_trajectories.list = <<>>

\* C5: what the sampler can return for a sequence is exactly the set of
\* trajectories of positive joint weight, and every trajectory it has stored
\* has positive joint weight.
C5_ExactPosteriorSupport ==
    pc = "trajectories" =>
        /\ \A k \in 1 .. Len(trajectories) :
             JointWeight(live, liveB, observations[k], trajectories[k]) > 0
        /\ \A k \in 1 .. ntrajectories :
             Returned(live, liveB, observations[k]) = PosteriorSupport(live, liveB, observations[k])

\* the same, for the sequences whose likelihood under the model is positive
ExactPosteriorSupportOfLikelyData ==
    pc = "trajectories" =>
        /\ \A k \in 1 .. Len(trajectories) :
             ~Degenerate(live, liveB, observations[k]) =>
                JointWeight(live, liveB, observations[k], trajectories[k]) > 0
        /\ \A k \in 1 .. ntrajectories :
             ~Degenerate(live, liveB, observations[k]) =>
                /\ Returned(live, liveB, observations[k]) = PosteriorSupport(live, liveB, observations[k])
                /\ \A out \in sampleHiddenStateTrajectory(live, liveB, observations[k]) : ~out.raised

\* C6: once the trajectory statement of a sweep is complete the model holds one
\* trajectory per observation sequence, in order, of the sequence's length, with
\* values in [0, nstates); while it runs, the trajectories stored so far are
\* those of the first sequences; no time index outside [0, T) is used.
C6_TrajectoryShape ==
    /\ \A k \in 1 .. ntrajectories :
         TimeIndicesRead(Len(observations[k])) \subseteq 0 .. (Len(observations[k]) - 1)
    /\ (pc = "trajectories" \/ done_steps # <<>>) =>
         /\ Len(trajectories) <= ntrajectories
         /\ \A k \in 1 .. Len(trajectories) :
              /\ Len(trajectories[k]) = Len(observations[k])
              /\ \A t \in 1 .. Len(trajectories[k]) :
                   trajectories[k][t] \in StatesOf(live.nstates)
    /\ (pc # "trajectories" /\ done_steps # <<>>) => Len(trajectories) = ntrajectories

C6_Witness ==
    /\ pc = "update" /\ step = 2 /\ sweeps = 1
    /\ observations = <<Observation(2), Observation(1)>>
    /\ trajectories = <<(<<1, 0>>), (<<1>>)>>

\* C7: no trajectory is ever stored for a sequence with a forward column that
\* is -inf in every state: the sampler ends with an error before it draws.
C7_DegenerateLikelihoodError ==
    (pc = "trajectories" \/ (pc = "update" /\ done_steps = <<"trajectories">>)) =>
        \A k \in 1 .. Len(trajectories) : ~Degenerate(live, liveB, observations[k])

\* C9: whenever the trajectory sampler is about to run or runs, logTij and
\* logPi are the logs of the model's current Tij and Pi.
C9_LogCacheFresh ==
    (pc = "trajectories" \/ (pc = "update" /\ step = 1)) =>
        /\ live.logTij = LogMatrix(live.Tij)
        /\ live.logPi = LogVector(live.Pi)

C9_Witness ==
    /\ pc = "trajectories" /\ sweeps = 1
    /\ live.Tij = IdentityMatrix(2)
    /\ heap.hmms[initial_model].Tij = UniformMatrix(2)

\* C10: while the trajectory statement runs, nothing of the model changes but
\* the list of hidden trajectories, which grows by one trajectory at its end,
\* the stored ones staying in place; the observations never change.
C10_FrozenModel ==
    [][ /\ observations' = observations
        /\ (pc = "trajectories" \/ (pc = "update" /\ pc' = "trajectories")) =>
             /\ model' = model
             /\ heap'.oms = heap.oms
             /\ Len(heap'.hmms) = Len(heap.hmms)
             /\ \A r \in 1 .. Len(heap.hmms) : r # model => heap'.hmms[r] = heap.hmms[r]
             /\ heap'.hmms[model] =
                  [live EXCEPT !.hidden_state_trajectories = heap'.hmms[model].hidden_state_trajectories]
             /\ pc = "trajectories" =>
                  LET now == heap'.hmms[model].hidden_state_trajectories.list
                  IN  \/ now = trajectories
                      \/ /\ Len(now) = Len(trajectories) + 1
                         /\ SubSeq(now, 1, Len(trajectories)) = trajectories
      ]_vars

C10_Witness ==
    /\ pc = "trajectories" /\ sweeps = 1
    /\ ntrajectories = 2 /\ trajectories = <<(<<0, 1>>)>>
====
